---- MODULE Spec2Model ----
(***************************************************************************)
(* A model of distbench's TestSequencer (distbench_test_sequencer.cc):     *)
(* the node registry (RegisterNode), the one-sequence-at-a-time interlock  *)
(* (RunTestSequence / DoRunTestSequence), the service placement of         *)
(* DoRunTest and the four fan-out phases (ConfigureNodes, IntroducePeers,  *)
(* RunTraffic, CancelTraffic).                                             *)
(*                                                                         *)
(* Strings that the code orders (std::set / std::map keys) are sequences   *)
(* of character codes compared lexicographically, as std::string is.       *)
(***************************************************************************)
EXTENDS Integers, Sequences, FiniteSets, TLC

\* ------------------------------------------------------------------ bounds
\* RunTestSequence calls (one thread each).
NumCalls == 2
\* Tests in one TestSequence request.
MaxTests == 1
\* RegisterNode calls in one behaviour.
MaxRegs == 3
\* Largest count of one service entry in the placement inputs.
MaxCount == 2
\* Registered aliases in the placement inputs.
MaxAliases == 3
\* Tests in the TestSequence of the call whose tests are followed one by one.
MaxRunTests == 2
\* RegisterNode calls made while sequences run.
MaxSeqRegs == 2

\* ----------------------------------------------------------------- strings
\* absl::StrCat of a non-negative integer: its decimal digits.
RECURSIVE Itoa(_)
Itoa(n) ==
  IF n < 10 THEN <<48 + n>> ELSE Itoa(n \div 10) \o <<48 + (n % 10)>>

\* "node"
NodeStr == <<110, 111, 100, 101>>

\* absl::StrCat("node", node_id)
NodeAlias(node_id) == NodeStr \o Itoa(node_id)

\* absl::StrCat(server_type, "/", i)
ServiceInstance(server_type, i) == server_type \o <<47>> \o Itoa(i)

\* std::string operator< : lexicographic on the characters.
StrLess(a, b) ==
  \E k \in 0..Len(a) :
    /\ k <= Len(b)
    /\ \A j \in 1..k : a[j] = b[j]
    /\ \/ (k = Len(a) /\ k < Len(b))
       \/ (k < Len(a) /\ k < Len(b) /\ a[k + 1] < b[k + 1])

\* *set.begin() of a std::set<std::string>.
SetBegin(S) == CHOOSE x \in S : \A y \in S \ {x} : StrLess(x, y)

EmptyMap == [x \in {} |-> {}]

\* node_service_map[k].insert(s): operator[] creates the key when absent.
MapInsert(m, k, s) ==
  IF k \in DOMAIN m THEN [m EXCEPT ![k] = @ \cup {s}] ELSE m @@ (k :> {s})

\* node_service_map[k]; with no insert.
MapTouch(m, k) == IF k \in DOMAIN m THEN m ELSE m @@ (k :> {})

\* ------------------------------------------------- DoRunTest: the placement
\* A DistributedSystemDescription is
\*   [services |-> Seq([server_type, count]),
\*    node_service_bundles |-> Seq([alias, services |-> Seq(name)])]
\* node_service_bundles is a protobuf map: its sequence here is the order in
\* which the map is iterated, and its aliases are distinct.

\* ", "
CommaSpace == <<44, 32>>

\* The loop that expands test.services() into unplaced_services.
UnplacedServices(test) ==
  UNION { { ServiceInstance(test.services[k].server_type, i) :
              i \in 0..(test.services[k].count - 1) } :
          k \in DOMAIN test.services }

\* BundleServices without unplaced_services.erase(it).
RECURSIVE BundleServicesNoErase(_, _, _, _)
BundleServicesNoErase(services, alias, unplaced, nsm) ==
  IF services = <<>>
  THEN [ok |-> TRUE, service |-> <<>>, unplaced |-> unplaced, nsm |-> nsm]
  ELSE IF Head(services) \notin unplaced
  THEN [ok |-> FALSE, service |-> Head(services), unplaced |-> unplaced,
        nsm |-> nsm]
  ELSE BundleServicesNoErase(Tail(services), alias, unplaced,
                             MapInsert(nsm, alias, Head(services)))

\* The inner loop over one bundle's services: each must still be unplaced,
\* and moves to node_service_map[alias].
RECURSIVE BundleServices(_, _, _, _)
BundleServices(services, alias, unplaced, nsm) ==
  IF services = <<>>
  THEN [ok |-> TRUE, service |-> <<>>, unplaced |-> unplaced, nsm |-> nsm]
  ELSE IF Head(services) \notin unplaced
  THEN [ok |-> FALSE, service |-> Head(services), unplaced |-> unplaced,
        nsm |-> nsm]
  ELSE BundleServices(Tail(services), alias, unplaced \ {Head(services)},
                      MapInsert(nsm, alias, Head(services)))

PlaceError(code, text, arg) ==
  [status |-> code, text |-> text, arg |-> arg, unplaced |-> {},
   idle_nodes |-> {}, nsm |-> EmptyMap]

\* ConsumeBundles with the bundle's alias looked up before its services.
RECURSIVE ConsumeBundlesAliasFirst(_, _, _, _)
ConsumeBundlesAliasFirst(bundles, unplaced, idle_nodes, nsm) ==
  IF bundles = <<>>
  THEN [status |-> "OK", text |-> "", arg |-> <<>>, unplaced |-> unplaced,
        idle_nodes |-> idle_nodes, nsm |-> nsm]
  ELSE LET b == Head(bundles)
           r == BundleServices(b.services, b.alias, unplaced, nsm)
       IN IF b.alias \notin idle_nodes
          THEN PlaceError("NOT_FOUND", "Node was not found or not idle.", b.alias)
          ELSE IF ~r.ok
          THEN PlaceError("NOT_FOUND", "Service was not found or already placed.",
                          r.service)
          ELSE ConsumeBundlesAliasFirst(Tail(bundles), r.unplaced,
                                        idle_nodes \ {b.alias}, r.nsm)

\* The loop over test.node_service_bundles(): the bundle's services first,
\* then the bundle's alias, which must still be in idle_nodes.
RECURSIVE ConsumeBundles(_, _, _, _)
ConsumeBundles(bundles, unplaced, idle_nodes, nsm) ==
  IF bundles = <<>>
  THEN [status |-> "OK", text |-> "", arg |-> <<>>, unplaced |-> unplaced,
        idle_nodes |-> idle_nodes, nsm |-> nsm]
  ELSE LET b == Head(bundles)
           r == BundleServices(b.services, b.alias, unplaced, nsm)
       IN IF ~r.ok
          THEN PlaceError("NOT_FOUND", "Service was not found or already placed.",
                          r.service)
          ELSE IF b.alias \notin idle_nodes
          THEN PlaceError("NOT_FOUND", "Node was not found or not idle.", b.alias)
          ELSE ConsumeBundles(Tail(bundles), r.unplaced,
                              idle_nodes \ {b.alias}, r.nsm)

\* NextIdleNode taking the last idle node (idle_nodes.rbegin()).
NextIdleNodeLast(idle_nodes) ==
  CHOOSE x \in idle_nodes : \A y \in idle_nodes \ {x} : StrLess(y, x)

\* The node the auto-placement takes for the next service: idle_nodes.begin().
NextIdleNode(idle_nodes) == SetBegin(idle_nodes)

\* AppendFailure without the separator.
AppendFailureNoSeparator(failures, service) == failures \o service

\* absl::StrAppend(&failures, ", ") when not empty, then the service.
AppendFailure(failures, service) ==
  IF failures = <<>> THEN service ELSE failures \o CommaSpace \o service

\* The loop over the services still unplaced, in the set's order.
RECURSIVE AutoPlace(_, _, _, _)
AutoPlace(todo, idle_nodes, nsm, failures) ==
  IF todo = {}
  THEN [idle_nodes |-> idle_nodes, nsm |-> nsm, failures |-> failures]
  ELSE LET service == SetBegin(todo)
       IN IF idle_nodes = {}
          THEN AutoPlace(todo \ {service}, idle_nodes, nsm,
                         AppendFailure(failures, service))
          ELSE LET it == NextIdleNode(idle_nodes)
               IN AutoPlace(todo \ {service}, idle_nodes \ {it},
                            MapInsert(nsm, it, service), failures)

\* for (idle_node : idle_nodes) node_service_map[idle_node];
RECURSIVE FillIdle(_, _)
FillIdle(idle_nodes, nsm) ==
  IF idle_nodes = {} THEN nsm
  ELSE LET n == SetBegin(idle_nodes)
       IN FillIdle(idle_nodes \ {n}, MapTouch(nsm, n))

\* Placement without the check of test.services().empty().
PlacementNoEmptyCheck(test, aliases) ==
  LET c == ConsumeBundles(test.node_service_bundles,
                          UnplacedServices(test), aliases, EmptyMap)
  IN IF c.status # "OK" THEN c
     ELSE LET a == AutoPlace(c.unplaced, c.idle_nodes, c.nsm, <<>>)
          IN IF a.failures # <<>>
             THEN PlaceError("NOT_FOUND",
                    "No idle node for placement of services: ", a.failures)
             ELSE [status |-> "OK", text |-> "", arg |-> <<>>,
                   unplaced |-> c.unplaced, idle_nodes |-> a.idle_nodes,
                   nsm |-> FillIdle(a.idle_nodes, a.nsm)]

\* DoRunTest up to the call of ConfigureNodes, given the aliases that the
\* snapshot of node_map_ holds: the status and, when OK, node_service_map.
Placement(test, aliases) ==
  IF test.services = <<>>
  THEN PlaceError("INVALID_ARGUMENT", "No services defined.", <<>>)
  ELSE LET c == ConsumeBundles(test.node_service_bundles,
                               UnplacedServices(test), aliases, EmptyMap)
       IN IF c.status # "OK" THEN c
          ELSE LET a == AutoPlace(c.unplaced, c.idle_nodes, c.nsm, <<>>)
               IN IF a.failures # <<>>
                  THEN PlaceError("NOT_FOUND",
                         "No idle node for placement of services: ", a.failures)
                  ELSE [status |-> "OK", text |-> "", arg |-> <<>>,
                        unplaced |-> c.unplaced, idle_nodes |-> a.idle_nodes,
                        nsm |-> FillIdle(a.idle_nodes, a.nsm)]

\* ------------------------------------------------------------------- state
VARIABLES
  \* the registry: alias -> [registration, stub, idle]
  node_map,
  \* registration.DebugString() -> node id
  node_id_map,
  \* RegisterNode calls made, the last call, and each payload's OK replies
  regCount, lastReg, okReplies,
  \* the placement under check: its inputs and DoRunTest's outcome
  pl_test, pl_aliases, pl_result,
  \* mutex_: the call holding it exclusively (0: none) and the shared holders
  mutex_,
  \* the ServerContext of the active sequence (0: nullptr), the Notification
  \* made last (0: none), each named by the call that owns it
  running_test_sequence_context_, running_test_notification_,
  \* the Notifications notified, the ServerContexts cancelled
  notified, cancelled,
  \* per RunTestSequence call: where it is, its TestSequence, the index of the test
  \* at hand, its response and the status it returns
  pc, sequence, test_index, response, result,
  \* per call: the locals prior_notification and node_service_map, and of the
  \* fan-out in progress: the nodes its loop has yet to visit, the nodes with
  \* an RPC in flight, and its status variable
  prior_notification, node_service_map, todo, pending, fan_status,
  \* per call, for the claims: the nodes not idle when it entered, the nodes
  \* its CancelTraffic sent an RPC to, and the nodes among the first whose idle
  \* flag was set to true before its CancelTraffic read it, and where the
  \* call was when its context was first cancelled ("": not cancelled)
  entry_busy, cancel_targets, idled_before_scan, cancelled_at,
  \* per call, for the claims: the RPCs it issued and their answers, as
  \* <<index of the test (0: the entry's CancelTraffic), phase, alias, event>>
  rpc_log

regVars == <<node_map, node_id_map, regCount, lastReg, okReplies>>
plVars == <<pl_test, pl_aliases, pl_result>>
ctlVars == <<mutex_, running_test_sequence_context_,
             running_test_notification_, notified, cancelled>>
callVars == <<pc, sequence, test_index, response, result, prior_notification,
              node_service_map, todo, pending, fan_status>>
claimVars == <<entry_busy, cancel_targets, idled_before_scan, cancelled_at>>
ghostVars == <<claimVars, rpc_log>>
seqVars == <<ctlVars, callVars, ghostVars>>
vars == <<regVars, plVars, seqVars>>

Calls == 1..NumCalls

\* -------------------------------------------------------------------- mutex_
\* absl::Mutex: Lock() needs no holder at all, ReaderLock() no exclusive one.
MutexFree == mutex_.writer = 0 /\ mutex_.readers = {}
ReaderFree == mutex_.writer = 0

GrpcStatus(code, text, arg) == [code |-> code, text |-> text, arg |-> arg]
NoResult == GrpcStatus("none", "", <<>>)

InitSeq ==
  /\ mutex_ = [writer |-> 0, readers |-> {}]
  /\ running_test_sequence_context_ = 0
  /\ running_test_notification_ = 0
  /\ notified = {}
  /\ cancelled = {}
  /\ pc = [t \in Calls |-> "start"]
  /\ sequence = [t \in Calls |-> <<>>]
  /\ test_index = [t \in Calls |-> 0]
  /\ response = [t \in Calls |-> <<>>]
  /\ result = [t \in Calls |-> NoResult]
  /\ prior_notification = [t \in Calls |-> 0]
  /\ node_service_map = [t \in Calls |-> EmptyMap]
  /\ todo = [t \in Calls |-> {}]
  /\ pending = [t \in Calls |-> {}]
  /\ fan_status = [t \in Calls |-> GrpcStatus("OK", "", <<>>)]
  /\ entry_busy = [t \in Calls |-> {}]
  /\ cancel_targets = [t \in Calls |-> {}]
  /\ idled_before_scan = [t \in Calls |-> {}]
  /\ cancelled_at = [t \in Calls |-> ""]
  /\ rpc_log = [t \in Calls |-> {}]

\* --------------------------------------------------------------- RegisterNode
Hostnames == {"", "h1", "h2"}
Ports == {0, 7, 8}
RegRequests == [hostname : Hostnames, control_port : Ports]

\* NodeRegistration::DebugString(): the text format prints the fields that
\* are set, in field order; an empty string or a zero is not printed.
DebugString(request) ==
  (IF request.hostname = "" THEN <<>> ELSE <<"hostname: ", request.hostname>>)
  \o (IF request.control_port = 0 THEN <<>>
      ELSE <<"control_port: ", request.control_port>>)

\* absl::StrCat("dns:///", hostname, ":", control_port), the stub's target.
NodeService(request) == <<"dns:///", request.hostname, ":", request.control_port>>

\* InvalidRegistration without the control_port() <= 0 test.
InvalidRegistrationHostOnly(request) == request.hostname = ""

\* The check that opens RegisterNode.
InvalidRegistration(request) ==
  request.hostname = "" \/ request.control_port <= 0

\* NodeIdFor without the lookup in node_id_map_.
NodeIdForNoLookup(registration) == Cardinality(DOMAIN node_map)

\* node_id: node_map_.size(), or the id node_id_map_ holds for the payload.
NodeIdFor(registration) ==
  IF registration \in DOMAIN node_id_map
  THEN node_id_map[registration]
  ELSE Cardinality(DOMAIN node_map)

\* node_id_map_ after the lookup: a payload not seen before is recorded,
\* before the stub is made.
RecordId(registration, node_id) ==
  IF registration \in DOMAIN node_id_map
  THEN node_id_map
  ELSE node_id_map @@ (registration :> node_id)

\* StoreNode with the other entries of node_map_ removed.
StoreNodeDropsOthers(alias, request) ==
  alias :> [registration |-> request, stub |-> NodeService(request),
            idle |-> TRUE]

\* StoreNode with the node marked not idle.
StoreNodeMarksBusy(alias, request) ==
  IF alias \in DOMAIN node_map
  THEN [node_map EXCEPT ![alias] = [registration |-> request,
                                     stub |-> NodeService(request),
                                     idle |-> FALSE]]
  ELSE node_map @@ (alias :> [registration |-> request,
                              stub |-> NodeService(request), idle |-> TRUE])

\* auto& node = node_map_[alias]; node.registration = ...; node.stub = ...
\* A Node that operator[] creates is idle.
StoreNode(alias, request) ==
  IF alias \in DOMAIN node_map
  THEN [node_map EXCEPT ![alias].registration = request,
                        ![alias].stub = NodeService(request)]
  ELSE node_map @@ (alias :> [registration |-> request,
                              stub |-> NodeService(request), idle |-> TRUE])

RegReply(request, status, node_id, node_alias) ==
  [request |-> request, status |-> status, node_id |-> node_id,
   node_alias |-> node_alias,
   size_before |-> Cardinality(DOMAIN node_map),
   repeated |-> (DebugString(request) \in DOMAIN okReplies)]

\* RegisterNode: the early return, then the section under mutex_.
\* stub_made: whether NewStub gave a stub.
RegisterNodeBody(request, stub_made) ==
  IF InvalidRegistration(request)
  THEN /\ lastReg' = RegReply(request, "INVALID_ARGUMENT", -1, <<>>)
       /\ UNCHANGED <<node_map, node_id_map, okReplies>>
  ELSE LET registration == DebugString(request)
           node_id == NodeIdFor(registration)
           alias == NodeAlias(node_id)
       IN /\ node_id_map' = RecordId(registration, node_id)
          /\ IF stub_made
             THEN /\ node_map' = StoreNode(alias, request)
                  /\ lastReg' = RegReply(request, "OK", node_id, alias)
                  /\ okReplies' =
                       IF registration \in DOMAIN okReplies
                       THEN [okReplies EXCEPT ![registration] =
                               @ \cup {<<node_id, alias>>}]
                       ELSE okReplies @@ (registration :> {<<node_id, alias>>})
             ELSE /\ lastReg' = RegReply(request, "UNKNOWN", -1, <<>>)
                  /\ UNCHANGED <<node_map, okReplies>>

NoReply == [request |-> [hostname |-> "", control_port |-> 0],
            status |-> "none", node_id |-> -1, node_alias |-> <<>>,
            size_before |-> 0, repeated |-> FALSE]

InitReg ==
  /\ node_map = [a \in {} |-> 0]
  /\ node_id_map = [r \in {} |-> 0]
  /\ regCount = 0
  /\ lastReg = NoReply
  /\ okReplies = [r \in {} |-> {}]

\* ------------------------------------------------- the placement, as a step
ServerTypes == {<<65>>, <<66>>}
ServiceEntries == [server_type : ServerTypes, count : 0..MaxCount]
\* Service names a bundle may give: requested ones and ones that are not.
BundleNames == {ServiceInstance(<<65>>, 0), ServiceInstance(<<65>>, 1),
                ServiceInstance(<<66>>, 0)}
\* Aliases a bundle may give: registered ones and one past them.
BundleAliases == {NodeAlias(i) : i \in 0..MaxAliases}
SeqsUpTo2(S) == {<<>>} \cup {<<x>> : x \in S} \cup {<<x, y>> : x, y \in S}
Bundles == [alias : BundleAliases, services : SeqsUpTo2(BundleNames)]
BundleSeqs ==
  {<<>>} \cup {<<b>> : b \in Bundles}
  \cup {<<b, c>> : b, c \in {x \in Bundles : TRUE}}
TestInputs ==
  {t \in [services : SeqsUpTo2(ServiceEntries), node_service_bundles : BundleSeqs] :
     \A i, j \in DOMAIN t.node_service_bundles :
       i # j => t.node_service_bundles[i].alias # t.node_service_bundles[j].alias}

NoTest == [services |-> <<>>, node_service_bundles |-> <<>>]
NoPlacement == PlaceError("none", "", <<>>)

InitPl ==
  /\ pl_test = NoTest
  /\ pl_aliases = {}
  /\ pl_result = NoPlacement

PlaceInit ==
  /\ InitReg
  /\ InitSeq
  /\ pl_test \in TestInputs
  /\ pl_aliases \in {{NodeAlias(i) : i \in 0..(k - 1)} : k \in 0..MaxAliases}
  /\ pl_result = NoPlacement

\* DoRunTest's validation and placement on the inputs drawn.
DoPlace ==
  /\ pl_result.status = "none"
  /\ pl_result' = Placement(pl_test, pl_aliases)
  /\ UNCHANGED <<pl_test, pl_aliases, regVars, seqVars>>

PlaceNext == DoPlace
PlaceSpec == PlaceInit /\ [][PlaceNext]_vars

\* --------------------------------------------------- the registry, alone
\* One RegisterNode call: the early return takes no lock, the rest runs as
\* one section under mutex_.
RegisterNode(reg, stub_made) ==
  /\ InvalidRegistration(reg) \/ MutexFree
  /\ regCount' = regCount + 1
  /\ RegisterNodeBody(reg, stub_made)
  /\ UNCHANGED <<plVars, seqVars>>

RegStep ==
  \E reg \in RegRequests, stub_made \in BOOLEAN :
    /\ regCount < MaxRegs
    /\ RegisterNode(reg, stub_made)

RegNext == RegStep
RegInit == InitReg /\ InitPl /\ InitSeq
RegSpec == RegInit /\ [][RegNext]_vars

\* ------------------------------------------------------------ CancelTraffic
SetIdle(alias, v) == [node_map EXCEPT ![alias].idle = v]

\* For the claims: call t issues RPCs of a phase to the aliases, or takes the
\* answer of one from its completion queue.
\* A second RPC of the phase to an alias is noted as "reissued", a second
\* answer as "answered again", the first non-OK answer of the phase also as
\* "first failed".
Issued(t, phase, aliases) ==
  rpc_log' = [rpc_log EXCEPT ![t] =
                @ \cup {<<test_index[t], phase, a,
                          IF <<test_index[t], phase, a, "issued">> \in @
                          THEN "reissued" ELSE "issued">> : a \in aliases}]
Answered(t, phase, alias, ok) ==
  rpc_log' = [rpc_log EXCEPT ![t] =
                @ \cup {<<test_index[t], phase, alias,
                          IF \E ev \in {"OK", "failed"} :
                               <<test_index[t], phase, alias, ev>> \in @
                          THEN "answered again"
                          ELSE IF ok THEN "OK" ELSE "failed">>}
                  \cup (IF ok \/ \E e \in @ : /\ e[1] = test_index[t]
                                                /\ e[2] = phase
                                                /\ e[4] = "failed"
                         THEN {}
                         ELSE {<<test_index[t], phase, alias, "first failed">>})]

\* For the claims: alias's idle flag is set to true; a call that entered when
\* alias was busy and whose CancelTraffic has not read the flag yet notes it.
NoteIdled(alias) ==
  idled_before_scan' =
    [t \in Calls |->
       IF /\ alias \in entry_busy[t]
          /\ \/ pc[t] = "CancelTraffic"
             \/ (pc[t] = "CancelTraffic_scan" /\ alias \in todo[t])
       THEN idled_before_scan[t] \cup {alias}
       ELSE idled_before_scan[t]]

\* if (node_it.second.idle) continue;  with the test inverted.
FoundBusyInverted(alias) == node_map[alias].idle

\* The test of CancelTraffic's loop: the node is not idle.
FoundBusy(alias) == ~node_map[alias].idle

\* while (rpc_count) left out: the fan-out returns without draining its queue.
RpcCountZeroNoWait(t) == TRUE

\* The exit of a fan-out's loop  while (rpc_count) { cq.Next(...) ... }.
RpcCountZero(t) == pending[t] = {}

\* absl::ReaderMutexLock m(&mutex_); and the vector sized by node_map_.
CancelTrafficLock(t) ==
  /\ pc[t] = "CancelTraffic"
  /\ ReaderFree
  /\ mutex_' = [mutex_ EXCEPT !.readers = @ \cup {t}]
  /\ todo' = [todo EXCEPT ![t] = DOMAIN node_map]
  /\ pending' = [pending EXCEPT ![t] = {}]
  /\ pc' = [pc EXCEPT ![t] = IF DOMAIN node_map = {}
                             THEN "CancelTraffic_wait"
                             ELSE "CancelTraffic_scan"]
  /\ UNCHANGED <<regVars, plVars, running_test_sequence_context_,
                 running_test_notification_, notified, cancelled, sequence,
                 test_index, response, result, prior_notification,
                 node_service_map, fan_status, ghostVars>>

\* One pass of  for (auto& node_it : node_map_): an idle node is skipped, a
\* busy one is sent AsyncCancelTraffic.
CancelTrafficScan(t) ==
  /\ pc[t] = "CancelTraffic_scan"
  /\ LET alias == SetBegin(todo[t])
     IN /\ todo' = [todo EXCEPT ![t] = @ \ {alias}]
        /\ pending' = [pending EXCEPT ![t] =
                         IF FoundBusy(alias) THEN @ \cup {alias} ELSE @]
        /\ cancel_targets' = [cancel_targets EXCEPT ![t] =
                         IF FoundBusy(alias) THEN @ \cup {alias} ELSE @]
        /\ Issued(t, "CancelTraffic",
                  IF FoundBusy(alias) THEN {alias} ELSE {})
        /\ pc' = [pc EXCEPT ![t] = IF todo[t] = {alias}
                                   THEN "CancelTraffic_wait"
                                   ELSE "CancelTraffic_scan"]
  /\ UNCHANGED <<regVars, plVars, ctlVars, sequence, test_index, response,
                 result, prior_notification, node_service_map, fan_status,
                 entry_busy, idled_before_scan, cancelled_at>>

\* CancelledIdle with the flag set only when the RPC's status is OK.
CancelledIdleWhenOk(alias, ok) == IF ok THEN TRUE ELSE node_map[alias].idle

\* finished_rpc->node->idle = true;  after the status was looked at only to
\* log it.
CancelledIdle(alias, ok) == TRUE

\* One pass of  while (rpc_count): a finished RPC, whatever its status, sets
\* its node idle.
CancelTrafficNext(t) ==
  /\ pc[t] = "CancelTraffic_wait"
  /\ ~RpcCountZero(t)
  /\ \E alias \in pending[t], ok \in BOOLEAN :
       /\ pending' = [pending EXCEPT ![t] = @ \ {alias}]
       /\ node_map' = SetIdle(alias, CancelledIdle(alias, ok))
       /\ IF CancelledIdle(alias, ok) THEN NoteIdled(alias)
          ELSE UNCHANGED idled_before_scan
       /\ Answered(t, "CancelTraffic", alias, ok)
  /\ UNCHANGED <<node_id_map, regCount, lastReg, okReplies, plVars, ctlVars,
                 pc, sequence, test_index, response, result,
                 prior_notification, node_service_map, todo, fan_status,
                 entry_busy, cancel_targets, cancelled_at>>

\* CancelTraffic returns: the reader lock is released.
CancelTrafficDone(t) ==
  /\ pc[t] = "CancelTraffic_wait"
  /\ RpcCountZero(t)
  /\ mutex_' = [mutex_ EXCEPT !.readers = @ \ {t}]
  /\ pc' = [pc EXCEPT ![t] = "Lock"]
  /\ UNCHANGED <<regVars, plVars, running_test_sequence_context_,
                 running_test_notification_, notified, cancelled, sequence,
                 test_index, response, result, prior_notification,
                 node_service_map, todo, pending, fan_status, ghostVars>>

\* ---------------------------------------------------------- RunTestSequence
\* The tests a TestSequence of this model is made of.
SeqTests ==
  {[services |-> <<[server_type |-> <<65>>, count |-> 1]>>,
    node_service_bundles |-> <<>>]}
TestSequences == UNION {[1..n -> SeqTests] : n \in 0..MaxTests}

\* A RunTestSequence call arrives with its request; calls are numbered in
\* order of arrival.
EnterWith(t, seq) ==
  /\ pc[t] = "start"
  /\ \A u \in Calls : u < t => pc[u] # "start"
  /\ sequence' = [sequence EXCEPT ![t] = seq]
  /\ entry_busy' = [entry_busy EXCEPT ![t] =
                      {a \in DOMAIN node_map : ~node_map[a].idle}]
  /\ pc' = [pc EXCEPT ![t] = "CancelTraffic"]
  /\ UNCHANGED <<regVars, plVars, ctlVars, test_index, response, result,
                 prior_notification, node_service_map, todo, pending,
                 fan_status, cancel_targets, idled_before_scan, cancelled_at,
                 rpc_log>>

Enter(t) == \E seq \in TestSequences : EnterWith(t, seq)

\* The body of the do loop, run under mutex_: TryCancel the active sequence,
\* take its notification, unlock.
PreemptBody(t) ==
  /\ cancelled' = IF running_test_sequence_context_ # 0
                  THEN cancelled \cup {running_test_sequence_context_}
                  ELSE cancelled
  /\ prior_notification' =
       [prior_notification EXCEPT ![t] = running_test_notification_]
  /\ cancelled_at' =
       [u \in Calls |->
          IF u = running_test_sequence_context_ /\ cancelled_at[u] = ""
          THEN pc[u] ELSE cancelled_at[u]]
  /\ pc' = [pc EXCEPT ![t] = "WaitForNotification"]
  /\ UNCHANGED <<running_test_sequence_context_, running_test_notification_,
                 test_index, response>>

\* After the loop: the call installs its context and a new Notification.
Install(t) ==
  /\ running_test_sequence_context_' = t
  /\ running_test_notification_' = t
  /\ test_index' = [test_index EXCEPT ![t] = 1]
  /\ response' = [response EXCEPT ![t] = <<>>]
  /\ pc' = [pc EXCEPT ![t] = "DoRunTestSequence"]
  /\ UNCHANGED <<cancelled, prior_notification, cancelled_at>>

\* } while (running_test_sequence_context_)  with the test always true.
LoopAgainAlways == TRUE

\* } while (running_test_sequence_context_)  with the test left out.
LoopAgainNever == FALSE

\* } while (running_test_sequence_context_);
LoopAgain == running_test_sequence_context_ # 0

\* mutex_.Lock(); and the first pass of the do loop up to mutex_.Unlock().
Lock(t) ==
  /\ pc[t] = "Lock"
  /\ MutexFree
  /\ PreemptBody(t)
  /\ UNCHANGED <<regVars, plVars, mutex_, notified, sequence, result,
                 node_service_map, todo, pending, fan_status, entry_busy,
                 cancel_targets, idled_before_scan, rpc_log>>

\* prior_notification->WaitForNotification(), when there is one.
WaitForNotification(t) ==
  /\ pc[t] = "WaitForNotification"
  /\ prior_notification[t] = 0 \/ prior_notification[t] \in notified
  /\ pc' = [pc EXCEPT ![t] = "Relock"]
  /\ UNCHANGED <<regVars, plVars, ctlVars, sequence, test_index, response,
                 result, prior_notification, node_service_map, todo, pending,
                 fan_status, ghostVars>>

\* mutex_.Lock(); the loop's test; then another pass, or the installation
\* and mutex_.Unlock().
Relock(t) ==
  /\ pc[t] = "Relock"
  /\ MutexFree
  /\ IF LoopAgain THEN PreemptBody(t) ELSE Install(t)
  /\ UNCHANGED <<regVars, plVars, mutex_, notified, sequence, result,
                 node_service_map, todo, pending, fan_status, entry_busy,
                 cancel_targets, idled_before_scan, rpc_log>>

\* ------------------------------------------------------- DoRunTestSequence
Aborted(text, arg) == GrpcStatus("ABORTED", text, arg)

\* The head of  for (test : request->tests()): the end of the loop, or the
\* check of IsCancelled() under mutex_.
DoRunTestSequence(t) ==
  /\ pc[t] = "DoRunTestSequence"
  /\ test_index[t] > Len(sequence[t]) \/ MutexFree
  /\ IF test_index[t] > Len(sequence[t])
     THEN /\ result' = [result EXCEPT ![t] = GrpcStatus("OK", "", <<>>)]
          /\ pc' = [pc EXCEPT ![t] = "Notify"]
     ELSE IF running_test_sequence_context_ = 0
     THEN /\ pc' = [pc EXCEPT ![t] = "nullptr_dereferenced"]
          /\ UNCHANGED result
     ELSE IF running_test_sequence_context_ \in cancelled
     THEN /\ result' = [result EXCEPT ![t] =
                          Aborted("Cancelled by new test sequence.", <<>>)]
          /\ pc' = [pc EXCEPT ![t] = "Notify"]
     ELSE /\ pc' = [pc EXCEPT ![t] = "DoRunTest"]
          /\ UNCHANGED result
  /\ UNCHANGED <<regVars, plVars, ctlVars, sequence, test_index, response,
                 prior_notification, node_service_map, todo, pending,
                 fan_status, ghostVars>>

\* DoRunTest has failed with status r: DoRunTestSequence returns ABORTED with
\* r's message.
TestFailure(r) == Aborted(r.text, r.arg)

\* DoRunTest up to ConfigureNodes: the check of services(), the snapshot of
\* node_map_ under mutex_, the placement.
DoRunTest(t) ==
  /\ pc[t] = "DoRunTest"
  /\ LET test == sequence[t][test_index[t]]
         r == Placement(test, DOMAIN node_map)
     IN /\ test.services = <<>> \/ MutexFree
        /\ IF r.status = "OK"
           THEN /\ node_service_map' = [node_service_map EXCEPT ![t] = r.nsm]
                /\ pc' = [pc EXCEPT ![t] = "ConfigureNodes"]
                /\ UNCHANGED result
           ELSE /\ result' = [result EXCEPT ![t] = TestFailure(r)]
                /\ pc' = [pc EXCEPT ![t] = "Notify"]
                /\ UNCHANGED node_service_map
  /\ UNCHANGED <<regVars, plVars, ctlVars, sequence, test_index, response,
                 prior_notification, todo, pending, fan_status, ghostVars>>

\* ------------------------------------------------------ the fan-out phases
OkStatus == GrpcStatus("OK", "", <<>>)
\* The non-OK status a worker answers with; arg names the worker.
WorkerError(alias) == GrpcStatus("WORKER_ERROR", "", alias)

\* FoldStatus with a non-OK status dropped.
FoldStatusDropsFailure(cur, alias, ok) == cur

\* if (!finished_rpc->status.ok()) status = finished_rpc->status;
FoldStatus(cur, alias, ok) == IF ok THEN cur ELSE WorkerError(alias)

\* FanOutTargets without the aliases that run no service.
FanOutTargetsWithServices(t) ==
  {a \in DOMAIN node_service_map[t] : node_service_map[t][a] # {}}

\* for (const auto& node_services : node_service_map): the nodes a
\* Configure, Introduce or RunTraffic fan-out sends an RPC to.
FanOutTargets(t) == DOMAIN node_service_map[t]

\* QCHECK(it != node_map_.end()) for every alias of the placement.
AllRegistered(t) == DOMAIN node_service_map[t] \subseteq DOMAIN node_map

\* A phase fails: DoRunTest returns the phase's status and DoRunTestSequence
\* returns ABORTED with its message.
PhaseFailed(t, text) ==
  /\ result' = [result EXCEPT ![t] = Aborted(text, <<>>)]
  /\ pc' = [pc EXCEPT ![t] = "Notify"]

\* ConfigureNodes: absl::MutexLock, and the loop that sends AsyncConfigureNode
\* to every alias of node_service_map.
ConfigureNodes(t) ==
  /\ pc[t] = "ConfigureNodes"
  /\ MutexFree
  /\ IF AllRegistered(t)
     THEN /\ mutex_' = [mutex_ EXCEPT !.writer = t]
          /\ pending' = [pending EXCEPT ![t] = FanOutTargets(t)]
          /\ fan_status' = [fan_status EXCEPT ![t] = OkStatus]
          /\ Issued(t, "ConfigureNodes", FanOutTargets(t))
          /\ pc' = [pc EXCEPT ![t] = "ConfigureNodes_wait"]
     ELSE /\ pc' = [pc EXCEPT ![t] = "QCHECK_failed"]
          /\ UNCHANGED <<mutex_, pending, fan_status, rpc_log>>
  /\ UNCHANGED <<regVars, plVars, running_test_sequence_context_,
                 running_test_notification_, notified, cancelled, sequence,
                 test_index, response, result, prior_notification,
                 node_service_map, todo, claimVars>>

\* One pass of ConfigureNodes'  while (rpc_count).
ConfigureNodesNext(t) ==
  /\ pc[t] = "ConfigureNodes_wait"
  /\ ~RpcCountZero(t)
  /\ \E alias \in pending[t], ok \in BOOLEAN :
       /\ pending' = [pending EXCEPT ![t] = @ \ {alias}]
       /\ fan_status' = [fan_status EXCEPT ![t] = FoldStatus(@, alias, ok)]
       /\ Answered(t, "ConfigureNodes", alias, ok)
  /\ UNCHANGED <<regVars, plVars, ctlVars, pc, sequence, test_index, response,
                 result, prior_notification, node_service_map, todo,
                 claimVars>>

\* ConfigureNodes returns, and DoRunTest goes on or returns its status.
ConfigureNodesDone(t) ==
  /\ pc[t] = "ConfigureNodes_wait"
  /\ RpcCountZero(t)
  /\ mutex_' = [mutex_ EXCEPT !.writer = 0]
  /\ IF fan_status[t].code = "OK"
     THEN /\ pc' = [pc EXCEPT ![t] = "IntroducePeers"]
          /\ UNCHANGED result
     ELSE PhaseFailed(t, "Unknown GRPC error2")
  /\ UNCHANGED <<regVars, plVars, running_test_sequence_context_,
                 running_test_notification_, notified, cancelled, sequence,
                 test_index, response, prior_notification, node_service_map,
                 todo, pending, fan_status, ghostVars>>

\* IntroducePeers: absl::MutexLock, and the loop that sends
\* AsyncIntroducePeers to every alias of node_service_map.
IntroducePeers(t) ==
  /\ pc[t] = "IntroducePeers"
  /\ MutexFree
  /\ IF AllRegistered(t)
     THEN /\ mutex_' = [mutex_ EXCEPT !.writer = t]
          /\ pending' = [pending EXCEPT ![t] = FanOutTargets(t)]
          /\ fan_status' = [fan_status EXCEPT ![t] = OkStatus]
          /\ Issued(t, "IntroducePeers", FanOutTargets(t))
          /\ pc' = [pc EXCEPT ![t] = "IntroducePeers_wait"]
     ELSE /\ pc' = [pc EXCEPT ![t] = "QCHECK_failed"]
          /\ UNCHANGED <<mutex_, pending, fan_status, rpc_log>>
  /\ UNCHANGED <<regVars, plVars, running_test_sequence_context_,
                 running_test_notification_, notified, cancelled, sequence,
                 test_index, response, result, prior_notification,
                 node_service_map, todo, claimVars>>

\* One pass of IntroducePeers'  while (rpc_count).
IntroducePeersNext(t) ==
  /\ pc[t] = "IntroducePeers_wait"
  /\ ~RpcCountZero(t)
  /\ \E alias \in pending[t], ok \in BOOLEAN :
       /\ pending' = [pending EXCEPT ![t] = @ \ {alias}]
       /\ fan_status' = [fan_status EXCEPT ![t] = FoldStatus(@, alias, ok)]
       /\ Answered(t, "IntroducePeers", alias, ok)
  /\ UNCHANGED <<regVars, plVars, ctlVars, pc, sequence, test_index, response,
                 result, prior_notification, node_service_map, todo,
                 claimVars>>

\* IntroducePeers returns, and DoRunTest goes on or returns its status.
IntroducePeersDone(t) ==
  /\ pc[t] = "IntroducePeers_wait"
  /\ RpcCountZero(t)
  /\ mutex_' = [mutex_ EXCEPT !.writer = 0]
  /\ IF fan_status[t].code = "OK"
     THEN /\ pc' = [pc EXCEPT ![t] = "RunTraffic"]
          /\ UNCHANGED result
     ELSE PhaseFailed(t, "Unknown GRPC error")
  /\ UNCHANGED <<regVars, plVars, running_test_sequence_context_,
                 running_test_notification_, notified, cancelled, sequence,
                 test_index, response, prior_notification, node_service_map,
                 todo, pending, fan_status, ghostVars>>

\* RunTraffic: absl::ReaderMutexLock.
RunTraffic(t) ==
  /\ pc[t] = "RunTraffic"
  /\ ReaderFree
  /\ mutex_' = [mutex_ EXCEPT !.readers = @ \cup {t}]
  /\ todo' = [todo EXCEPT ![t] = FanOutTargets(t)]
  /\ pending' = [pending EXCEPT ![t] = {}]
  /\ fan_status' = [fan_status EXCEPT ![t] = OkStatus]
  /\ pc' = [pc EXCEPT ![t] = IF FanOutTargets(t) = {}
                             THEN "RunTraffic_wait"
                             ELSE "RunTraffic_dispatch"]
  /\ UNCHANGED <<regVars, plVars, running_test_sequence_context_,
                 running_test_notification_, notified, cancelled, sequence,
                 test_index, response, result, prior_notification,
                 node_service_map, ghostVars>>

\* One pass of RunTraffic's dispatch loop: the node is looked up, marked not
\* idle and sent AsyncRunTraffic.
RunTrafficDispatch(t) ==
  /\ pc[t] = "RunTraffic_dispatch"
  /\ LET alias == SetBegin(todo[t])
     IN IF alias \in DOMAIN node_map
        THEN /\ node_map' = SetIdle(alias, FALSE)
             /\ todo' = [todo EXCEPT ![t] = @ \ {alias}]
             /\ pending' = [pending EXCEPT ![t] = @ \cup {alias}]
             /\ Issued(t, "RunTraffic", {alias})
             /\ pc' = [pc EXCEPT ![t] = IF todo[t] = {alias}
                                        THEN "RunTraffic_wait"
                                        ELSE "RunTraffic_dispatch"]
        ELSE /\ pc' = [pc EXCEPT ![t] = "QCHECK_failed"]
             /\ UNCHANGED <<node_map, todo, pending, rpc_log>>
  /\ UNCHANGED <<node_id_map, regCount, lastReg, okReplies, plVars, ctlVars,
                 sequence, test_index, response, result, prior_notification,
                 node_service_map, fan_status, claimVars>>

\* FinishedRunTraffic with the flag set only when the RPC's status is OK.
FinishedRunTrafficWhenOk(alias, ok) ==
  IF ok THEN SetIdle(alias, TRUE) ELSE node_map

\* finished_rpc->node->idle = true;  whatever the RPC's status.
FinishedRunTraffic(alias, ok) == SetIdle(alias, TRUE)

\* One pass of RunTraffic's  while (rpc_count): the status is folded and the
\* node is marked idle again.
RunTrafficNext(t) ==
  /\ pc[t] = "RunTraffic_wait"
  /\ ~RpcCountZero(t)
  /\ \E alias \in pending[t], ok \in BOOLEAN :
       /\ pending' = [pending EXCEPT ![t] = @ \ {alias}]
       /\ fan_status' = [fan_status EXCEPT ![t] = FoldStatus(@, alias, ok)]
       /\ node_map' = FinishedRunTraffic(alias, ok)
       /\ NoteIdled(alias)
       /\ Answered(t, "RunTraffic", alias, ok)
  /\ UNCHANGED <<node_id_map, regCount, lastReg, okReplies, plVars, ctlVars,
                 pc, sequence, test_index, response, result,
                 prior_notification, node_service_map, todo, entry_busy,
                 cancel_targets, cancelled_at>>

\* AddTestResult with the new result put first.
AddTestResultFirst(results, test) == <<test>> \o results

\* *response->add_test_results() = maybe_result.value();  a TestResult is
\* named by its traffic_config, the test.
AddTestResult(results, test) == Append(results, test)

\* RunTraffic returns; on OK DoRunTest returns the TestResult, which
\* DoRunTestSequence adds to the response before the next test.
RunTrafficDone(t) ==
  /\ pc[t] = "RunTraffic_wait"
  /\ RpcCountZero(t)
  /\ mutex_' = [mutex_ EXCEPT !.readers = @ \ {t}]
  /\ IF fan_status[t].code = "OK"
     THEN /\ response' = [response EXCEPT ![t] =
                            AddTestResult(@, sequence[t][test_index[t]])]
          /\ test_index' = [test_index EXCEPT ![t] = @ + 1]
          /\ pc' = [pc EXCEPT ![t] = "DoRunTestSequence"]
          /\ UNCHANGED result
     ELSE /\ PhaseFailed(t, "Unknown GRPC error2")
          /\ UNCHANGED <<response, test_index>>
  /\ UNCHANGED <<regVars, plVars, running_test_sequence_context_,
                 running_test_notification_, notified, cancelled, sequence,
                 prior_notification, node_service_map, todo, pending,
                 fan_status, ghostVars>>

\* ------------------------------------------- the end of RunTestSequence
\* Notify with the Notification left as it is.
NotifySkipped(t) ==
  /\ pc[t] = "Notify"
  /\ pc' = [pc EXCEPT ![t] = "Clear"]
  /\ UNCHANGED <<regVars, plVars, ctlVars, sequence, test_index, response,
                 result, prior_notification, node_service_map, todo, pending,
                 fan_status, ghostVars>>

\* notification->Notify();
Notify(t) ==
  /\ pc[t] = "Notify"
  /\ notified' = notified \cup {t}
  /\ pc' = [pc EXCEPT ![t] = "Clear"]
  /\ UNCHANGED <<regVars, plVars, mutex_, running_test_sequence_context_,
                 running_test_notification_, cancelled, sequence, test_index,
                 response, result, prior_notification, node_service_map, todo,
                 pending, fan_status, ghostVars>>

\* mutex_.Lock(); running_test_sequence_context_ = nullptr; mutex_.Unlock();
\* return result;
Clear(t) ==
  /\ pc[t] = "Clear"
  /\ MutexFree
  /\ running_test_sequence_context_' = 0
  /\ pc' = [pc EXCEPT ![t] = "done"]
  /\ UNCHANGED <<regVars, plVars, mutex_, running_test_notification_,
                 notified, cancelled, sequence, test_index, response, result,
                 prior_notification, node_service_map, todo, pending,
                 fan_status, ghostVars>>

\* ------------------------------------------------------- the whole service
\* The registrations made while sequences run.
SeqRegRequests == {[hostname |-> "h1", control_port |-> 7],
                   [hostname |-> "h2", control_port |-> 7]}

SeqRegStep ==
  \E reg \in SeqRegRequests, stub_made \in BOOLEAN :
    /\ regCount < MaxSeqRegs
    /\ RegisterNode(reg, stub_made)

\* The steps of a call after its arrival.
CallBody(t) ==
  \/ CancelTrafficLock(t)
  \/ CancelTrafficScan(t)
  \/ CancelTrafficNext(t)
  \/ CancelTrafficDone(t)
  \/ Lock(t)
  \/ WaitForNotification(t)
  \/ Relock(t)
  \/ DoRunTestSequence(t)
  \/ DoRunTest(t)
  \/ ConfigureNodes(t)
  \/ ConfigureNodesNext(t)
  \/ ConfigureNodesDone(t)
  \/ IntroducePeers(t)
  \/ IntroducePeersNext(t)
  \/ IntroducePeersDone(t)
  \/ RunTraffic(t)
  \/ RunTrafficDispatch(t)
  \/ RunTrafficNext(t)
  \/ RunTrafficDone(t)
  \/ Notify(t)
  \/ Clear(t)

CallStep(t) == Enter(t) \/ CallBody(t)

Init == InitReg /\ InitPl /\ InitSeq
Next == SeqRegStep \/ \E t \in Calls : CallStep(t)
Spec == Init /\ [][Next]_vars

\* The same, with every call's thread scheduled fairly: a call that can take
\* a step (its lock is free, its Notification notified, an RPC of its
\* fan-out answered) eventually takes one.  Worker RPCs are always answered;
\* RegisterNode calls come as they may.
LiveInit == InitReg /\ InitPl /\ InitSeq
LiveNext == SeqRegStep \/ \E t \in Calls : CallStep(t)
LiveSpec ==
  LiveInit /\ [][LiveNext]_vars /\ \A t \in Calls : WF_vars(CallStep(t))

\* ------------------------------- sequences whose caller may cancel its RPC
\* The fan-out phase a call is in with RPCs issued ("": none).
PhaseOf(t) ==
  IF pc[t] = "ConfigureNodes_wait" THEN "ConfigureNodes"
  ELSE IF pc[t] = "IntroducePeers_wait" THEN "IntroducePeers"
  ELSE IF pc[t] \in {"RunTraffic_dispatch", "RunTraffic_wait"}
  THEN "RunTraffic"
  ELSE ""

\* The ServerContext of a RunTestSequence call becomes cancelled from the
\* caller's side (the client cancels the RPC or its deadline passes):
\* IsCancelled() is true from then on.  Nothing of the sequencer changes.
\* The cancellations followed are those that arrive while a fan-out of the
\* call has RPCs in flight, which are noted for the claims.
ClientCancel(t) ==
  /\ PhaseOf(t) # ""
  /\ pending[t] # {}
  /\ t \notin cancelled
  /\ cancelled' = cancelled \cup {t}
  /\ rpc_log' = [rpc_log EXCEPT ![t] =
                   @ \cup {<<test_index[t], PhaseOf(t), a,
                             "in_flight_at_cancel">> : a \in pending[t]}]
  /\ UNCHANGED <<regVars, plVars, mutex_, running_test_sequence_context_,
                 running_test_notification_, notified, callVars, claimVars>>

\* The first call brings a TestSequence, the calls after it an empty one.
CancelEnter(t) ==
  \E seq \in (IF t = 1 THEN TestSequences ELSE {<<>>}) : EnterWith(t, seq)

CancelInit == InitReg /\ InitPl /\ InitSeq
CancelNext ==
  \/ SeqRegStep
  \/ \E t \in Calls : (CancelEnter(t) \/ CallBody(t))
  \/ \E t \in Calls : ClientCancel(t)
CancelSpec == CancelInit /\ [][CancelNext]_vars

\* ------------------------------------- one sequence, followed test by test
\* The first call brings up to MaxRunTests tests: one that needs one node,
\* one that needs two, one with no services.  The calls after it bring an
\* empty TestSequence, and preempt the first.
RunTests ==
  {[services |-> <<[server_type |-> <<65>>, count |-> 1]>>,
    node_service_bundles |-> <<>>],
   [services |-> <<[server_type |-> <<65>>, count |-> 2]>>,
    node_service_bundles |-> <<>>],
   [services |-> <<>>, node_service_bundles |-> <<>>]}
RunSequences == UNION {[1..n -> RunTests] : n \in 0..MaxRunTests}

RunEnter(t) ==
  \E seq \in (IF t = 1 THEN RunSequences ELSE {<<>>}) : EnterWith(t, seq)

RunInit == InitReg /\ InitPl /\ InitSeq
RunNext == SeqRegStep \/ \E t \in Calls : (RunEnter(t) \/ CallBody(t))
RunSpec == RunInit /\ [][RunNext]_vars

\* ================================================================== claims
Range(f) == {f[i] : i \in DOMAIN f}

\* ---- registry (RegSpec)

\* C5: any two OK replies to one registration payload carry the same node_id
\* and the alias node<id>, and an OK reply to a payload that was registered
\* before leaves the number of registry entries as it was.
C5_IdempotentReRegistration ==
  /\ \A r \in DOMAIN okReplies :
       /\ Cardinality(okReplies[r]) = 1
       /\ \A rep \in okReplies[r] : rep[2] = NodeStr \o Itoa(rep[1])
  /\ (lastReg.status = "OK" /\ lastReg.repeated)
       => Cardinality(DOMAIN node_map) = lastReg.size_before

\* A payload is registered a second time, with another payload known.
C5_Witness ==
  /\ lastReg.status = "OK"
  /\ lastReg.repeated
  /\ Cardinality(DOMAIN node_id_map) >= 2
  /\ Cardinality(DOMAIN node_map) >= 2

\* C6: two different registration payloads never hold the same node id, and
\* the registry entry node<k> holds the payload that id k was given to.
C6_AliasesUnique ==
  /\ \A r1, r2 \in DOMAIN node_id_map :
       r1 # r2 => node_id_map[r1] # node_id_map[r2]
  /\ \A r \in DOMAIN okReplies :
       \A rep \in okReplies[r] :
         DebugString(node_map[rep[2]].registration) = r

\* C7: a RegisterNode call that returns UNKNOWN leaves node_map_ and
\* node_id_map_ as they were.
C7_StubFailureLeavesRegistry ==
  [][(regCount' # regCount /\ lastReg'.status = "UNKNOWN")
       => (node_map' = node_map /\ node_id_map' = node_id_map)]_vars

\* C8: a RegisterNode call with an empty hostname or a control port <= 0
\* returns INVALID_ARGUMENT and leaves node_map_ (the idle flags with it) and
\* node_id_map_ as they were.
C8_InvalidRegistrationRejected ==
  [][(regCount' # regCount
        /\ (lastReg'.request.hostname = ""
              \/ lastReg'.request.control_port <= 0))
       => /\ lastReg'.status = "INVALID_ARGUMENT"
          /\ node_map' = node_map
          /\ node_id_map' = node_id_map]_vars

\* An invalid registration is rejected while the registry holds nodes.
C8_Witness ==
  /\ lastReg.status = "INVALID_ARGUMENT"
  /\ lastReg.request.hostname # ""
  /\ lastReg.request.control_port <= 0
  /\ DOMAIN node_map # {}

\* ---- sequences (Spec)
\* A call is in its body from the installation of its context to the return
\* of DoRunTestSequence.
InBody(t) ==
  pc[t] \in {"DoRunTestSequence", "DoRunTest", "ConfigureNodes",
             "ConfigureNodes_wait", "IntroducePeers", "IntroducePeers_wait",
             "RunTraffic", "RunTraffic_dispatch", "RunTraffic_wait"}

\* C1: at most one RunTestSequence call is in its body, and it is the one
\* whose context is installed.
C1_MutualExclusion ==
  \A t \in Calls :
    InBody(t) =>
      /\ running_test_sequence_context_ = t
      /\ \A u \in Calls : InBody(u) => u = t

\* Call 2 is in its body after it cancelled call 1, which has returned.
C1_Witness ==
  /\ InBody(2)
  /\ 1 \in cancelled
  /\ pc[1] = "done"
  /\ DOMAIN node_map # {}

\* C2: the call that arrived first, when its context was cancelled (TryCancel
\* by a newer call) while it was the active sequence and in a test of its
\* body, in whatever phase, returns ABORTED.
C2_CancelledReturnsAborted ==
  (pc[1] = "done"
     /\ cancelled_at[1] \in {"DoRunTest", "ConfigureNodes",
           "ConfigureNodes_wait", "IntroducePeers", "IntroducePeers_wait",
           "RunTraffic", "RunTraffic_dispatch", "RunTraffic_wait"})
    => result[1].code = "ABORTED"

\* C3, as claimed: when a call is in its body, every node that was not idle
\* when the call entered RunTestSequence was sent a CancelTraffic RPC by it.
C3_EveryBusyNodeCancelled ==
  \A t \in Calls : InBody(t) => entry_busy[t] \subseteq cancel_targets[t]

\* C3, amended: when a call is in its body, every node that was not idle when
\* the call entered RunTestSequence was sent a CancelTraffic RPC by it, or
\* had its idle flag set to true (a RunTraffic or CancelTraffic RPC on it was
\* finished) before the call's CancelTraffic read the flag.
C3_BusyNodeCancelledOrIdled ==
  \A t \in Calls :
    InBody(t) =>
      entry_busy[t] \subseteq (cancel_targets[t] \cup idled_before_scan[t])

\* Call 2 entered with a node busy, sent it CancelTraffic and is in its body.
C3_Witness ==
  /\ InBody(2)
  /\ entry_busy[2] # {}
  /\ entry_busy[2] \subseteq cancel_targets[2]

\* C4: from the return of the CancelTraffic broadcast made at its entry, up
\* to the first ConfigureNodes of its body, a call has no CancelTraffic RPC in
\* flight: all were finished before mutex_.Lock().
C4_CancelBeforeBody ==
  \A t \in Calls :
    (\/ pc[t] \in {"Lock", "WaitForNotification", "Relock"}
     \/ (test_index[t] = 1
          /\ pc[t] \in {"DoRunTestSequence", "DoRunTest", "ConfigureNodes"}))
      => pending[t] = {}

\* A broadcast that sent RPCs has returned and the call is about to lock.
C4_Witness ==
  \E t \in Calls : pc[t] = "Lock" /\ cancel_targets[t] # {}

\* ---- placement (PlaceSpec)
Requested(test) ==
  UNION {{e.server_type \o <<47>> \o Itoa(i) : i \in 0..(e.count - 1)} :
         e \in Range(test.services)}
PrePlaced(test) ==
  UNION {Range(b.services) : b \in Range(test.node_service_bundles)}
PreAliases(test) == {b.alias : b \in Range(test.node_service_bundles)}
Rank(x, S) == Cardinality({y \in S : StrLess(y, x)})
SwapBundles(test) ==
  [test EXCEPT !.node_service_bundles =
     [i \in DOMAIN @ |-> @[Len(@) + 1 - i]]]

\* C9: when the placement succeeds, every requested service instance is
\* under exactly one alias of node_service_map, and nothing else is in it.
C9_PlacementPartition ==
  pl_result.status = "OK" =>
    /\ \A s \in Requested(pl_test) :
         Cardinality({a \in DOMAIN pl_result.nsm : s \in pl_result.nsm[a]}) = 1
    /\ UNION Range(pl_result.nsm) \subseteq Requested(pl_test)

\* A placement succeeds with a pre-placed service and two auto-placed ones.
C9_Witness ==
  /\ pl_result.status = "OK"
  /\ PrePlaced(pl_test) # {}
  /\ Cardinality(Requested(pl_test) \ PrePlaced(pl_test)) >= 2

\* C10: when the placement succeeds, the i-th service (in string order) that
\* no bundle names is alone on the i-th alias (in string order) that no
\* bundle names, the aliases past them have the empty set, and the order in
\* which the bundles are iterated does not change the placement.
C10_SortedAutoPlacement ==
  pl_result.status = "OK" =>
    LET RS == Requested(pl_test) \ PrePlaced(pl_test)
        RA == pl_aliases \ PreAliases(pl_test)
    IN /\ \A a \in RA :
            /\ a \in DOMAIN pl_result.nsm
            /\ pl_result.nsm[a] = {s \in RS : Rank(s, RS) = Rank(a, RA)}
       /\ Placement(SwapBundles(pl_test), pl_aliases).status = "OK"
       /\ Placement(SwapBundles(pl_test), pl_aliases).nsm = pl_result.nsm

\* Three nodes and services A x2: A/0 on node0, A/1 on node1, node2 empty.
C10_Witness ==
  /\ pl_test = [services |-> <<[server_type |-> <<65>>, count |-> 2]>>,
                node_service_bundles |-> <<>>]
  /\ pl_aliases = {NodeAlias(0), NodeAlias(1), NodeAlias(2)}
  /\ pl_result.status = "OK"
  /\ pl_result.nsm = (NodeAlias(0) :> {ServiceInstance(<<65>>, 0)})
                      @@ (NodeAlias(1) :> {ServiceInstance(<<65>>, 1)})
                      @@ (NodeAlias(2) :> {})

\* The names of S in string order, joined with ", ".
RECURSIVE JoinSorted(_)
JoinSorted(S) ==
  IF S = {} THEN <<>>
  ELSE LET x == CHOOSE y \in S : Rank(y, S) = 0
       IN IF S = {x} THEN x
          ELSE x \o <<44, 32>> \o JoinSorted(S \ {x})

ServiceErrorText == "Service was not found or already placed."
AliasErrorText == "Node was not found or not idle."
NoIdleNodeText == "No idle node for placement of services: "

\* C11: when the pre-placements are accepted and the services no bundle
\* names are more than the aliases no bundle names, DoRunTest fails NOT_FOUND
\* with the message "No idle node for placement of services: " followed by
\* the services past the number of free aliases, in string order, joined by
\* ", " (the services before them were placed and are not listed), and
\* DoRunTestSequence returns ABORTED with that message.
C11_InsufficientNodes ==
  LET RS == Requested(pl_test) \ PrePlaced(pl_test)
      RA == pl_aliases \ PreAliases(pl_test)
      Left == {s \in RS : Rank(s, RS) >= Cardinality(RA)}
  IN (/\ pl_result.status # "none"
      /\ pl_test.services # <<>>
      /\ pl_result.text \notin {ServiceErrorText, AliasErrorText}
      /\ Cardinality(RS) > Cardinality(RA))
     => /\ pl_result.status = "NOT_FOUND"
        /\ pl_result.text = NoIdleNodeText
        /\ pl_result.arg = JoinSorted(Left)
        /\ TestFailure(pl_result) =
             [code |-> "ABORTED", text |-> NoIdleNodeText,
              arg |-> JoinSorted(Left)]

\* A service is pre-placed, one is auto-placed on the alias left, and two
\* are left without a node.
C11_Witness ==
  /\ pl_result.status = "NOT_FOUND"
  /\ pl_result.text = NoIdleNodeText
  /\ PrePlaced(pl_test) # {}
  /\ pl_aliases \ PreAliases(pl_test) # {}
  /\ pl_result.arg = ServiceInstance(<<66>>, 0) \o <<44, 32>>
                       \o ServiceInstance(<<66>>, 1)

\* The j-th service of the i-th bundle (in the order of iteration) was not
\* requested, or is named before it, in this bundle or an earlier one.
BadService(test, i, j) ==
  LET b == test.node_service_bundles
  IN \/ b[i].services[j] \notin Requested(test)
     \/ \E j2 \in 1..(j - 1) : b[i].services[j2] = b[i].services[j]
     \/ \E i2 \in 1..(i - 1) : b[i].services[j] \in Range(b[i2].services)
\* The i-th bundle's alias is not registered, or an earlier bundle has it.
BadAlias(test, aliases, i) ==
  LET b == test.node_service_bundles
  IN \/ b[i].alias \notin aliases
     \/ \E i2 \in 1..(i - 1) : b[i2].alias = b[i].alias
BadBundle(test, aliases, i) ==
  \/ \E j \in DOMAIN test.node_service_bundles[i].services :
       BadService(test, i, j)
  \/ BadAlias(test, aliases, i)

\* C12: when some bundle names a service that was not requested or is
\* already placed, or an alias that is not registered, DoRunTest fails
\* NOT_FOUND; the first such bundle in the order of iteration decides the
\* message: "Service ... was not found or already placed." for its first
\* such service if it has one, whatever its alias, and otherwise
\* "Node ... was not found or not idle." for its alias.
C12_PrePlacementErrors ==
  LET b == pl_test.node_service_bundles
      Bad == {i \in DOMAIN b : BadBundle(pl_test, pl_aliases, i)}
  IN (pl_result.status # "none" /\ pl_test.services # <<>> /\ Bad # {})
     => LET i0 == CHOOSE i \in Bad : \A k \in Bad : i <= k
            BadJ == {j \in DOMAIN b[i0].services : BadService(pl_test, i0, j)}
        IN /\ pl_result.status = "NOT_FOUND"
           /\ IF BadJ # {}
              THEN /\ pl_result.text = ServiceErrorText
                   /\ pl_result.arg =
                        b[i0].services[CHOOSE j \in BadJ : \A k \in BadJ : j <= k]
              ELSE /\ pl_result.text = AliasErrorText
                   /\ pl_result.arg = b[i0].alias

\* A bundle names one requested service twice and an alias that is not
\* registered: the service is reported.
C12_Witness ==
  /\ pl_result.text = ServiceErrorText
  /\ Len(pl_test.node_service_bundles) >= 1
  /\ LET b == pl_test.node_service_bundles[1]
     IN /\ b.alias \notin pl_aliases
        /\ Len(b.services) = 2
        /\ b.services[1] = b.services[2]
        /\ b.services[1] \in Requested(pl_test)

\* ---- one sequence, test by test (RunSpec)
NoServicesText == "No services defined."
\* The RPCs of call t's k-th test.
TestRpcs(t, k) == {e \in rpc_log[t] : e[1] = k}

\* C13: a test with no services makes DoRunTest fail INVALID_ARGUMENT; and
\* the step in which DoRunTest fails in its validation or placement
\* (INVALID_ARGUMENT or NOT_FOUND) changes no node's idle flag, and up to the
\* call's return no Configure, Introduce or RunTraffic RPC is issued for
\* that test.
C13_FailedPlacementNoEffects ==
  /\ [][\A t \in Calls :
         (pc[t] = "DoRunTest" /\ pc'[t] # "DoRunTest") =>
           LET test == sequence[t][test_index[t]]
           IN /\ test.services = <<>> =>
                   /\ Placement(test, DOMAIN node_map).status
                        = "INVALID_ARGUMENT"
                   /\ pc'[t] = "Notify"
                   /\ result'[t] = [code |-> "ABORTED",
                                    text |-> NoServicesText, arg |-> <<>>]
              /\ pc'[t] = "Notify" =>
                   /\ Placement(test, DOMAIN node_map).status
                        \in {"INVALID_ARGUMENT", "NOT_FOUND"}
                   /\ node_map' = node_map
                   /\ rpc_log' = rpc_log]_vars
  /\ [](\A t \in Calls :
         (/\ pc[t] \in {"Notify", "Clear", "done"}
          /\ result[t].text \in {NoServicesText, NoIdleNodeText,
                                  ServiceErrorText, AliasErrorText})
           => /\ TestRpcs(t, test_index[t]) = {}
              /\ pending[t] = {})

\* The second test of a sequence has no services and fails, after the first
\* ran its traffic on a node.
C13_Witness ==
  /\ pc[1] = "done"
  /\ test_index[1] = 2
  /\ result[1].text = NoServicesText
  /\ \E e \in rpc_log[1] : e[2] = "RunTraffic" /\ e[4] = "OK"

\* The aliases with an event ev of phase ph in call t's k-th test.
Rpcs(t, k, ph, ev) == {e[3] : e \in {x \in TestRpcs(t, k) : x[2] = ph /\ x[4] = ev}}
\* Every RPC of the phase that was issued has been answered, and with OK.
PhaseAllOk(t, k, ph) ==
  /\ Rpcs(t, k, ph, "OK") = Rpcs(t, k, ph, "issued")
  /\ Rpcs(t, k, ph, "failed") = {}

\* C14: in every state, for every test of every call: if an Introduce RPC of
\* the test has been issued, every Configure RPC of the test has been
\* answered, and with OK; if a RunTraffic RPC of the test has been issued,
\* every Configure and every Introduce RPC of the test has been answered,
\* and with OK.  So a phase starts after the one before it has ended, and
\* does not start when that one saw a non-OK answer.
C14_StrictPhaseOrder ==
  \A t \in Calls : \A k \in 1..MaxRunTests :
    /\ Rpcs(t, k, "IntroducePeers", "issued") # {}
         => PhaseAllOk(t, k, "ConfigureNodes")
    /\ Rpcs(t, k, "RunTraffic", "issued") # {}
         => /\ PhaseAllOk(t, k, "ConfigureNodes")
            /\ PhaseAllOk(t, k, "IntroducePeers")

\* A sequence has ended whose first test ran its three phases on two nodes
\* and whose second test saw a Configure RPC fail.
C14_Witness ==
  /\ pc[1] = "done"
  /\ Cardinality(Rpcs(1, 1, "RunTraffic", "OK")) = 2
  /\ Rpcs(1, 2, "ConfigureNodes", "failed") # {}
  /\ Rpcs(1, 2, "ConfigureNodes", "OK") # {}

CancelledText == "Cancelled by new test sequence."
Phases == {"ConfigureNodes", "IntroducePeers", "RunTraffic"}
\* The k-th test of call t ran its three phases, every RPC answered OK.
TestRan(t, k) ==
  \A ph \in Phases :
    Rpcs(t, k, ph, "issued") # {} /\ PhaseAllOk(t, k, ph)

\* C16: when RunTestSequence is about to return (DoRunTestSequence has
\* returned), with k the index of the test it stopped at: the tests before k
\* ran their three phases with OK answers, and the response holds their
\* TestResults, one each, in request order; no RPC was issued for a test
\* after k.  If the status is OK, k is past the last test.  If not, it is
\* ABORTED, test k exists and did not run to the end: either the context was
\* found cancelled before it, or its placement failed, and no RPC was issued
\* for it, or a phase of it saw a non-OK answer, and no RPC of a later phase
\* was issued.
C16_StopsAtFirstProblem ==
  \A t \in Calls :
    pc[t] \in {"Notify", "Clear", "done"} =>
      LET k == test_index[t]
          seq == sequence[t]
      IN /\ k \in 1..(Len(seq) + 1)
         /\ \A j \in 1..(k - 1) : TestRan(t, j)
         /\ response[t] = SubSeq(seq, 1, k - 1)
         /\ \A j \in (k + 1)..MaxRunTests : TestRpcs(t, j) = {}
         /\ IF result[t].code = "OK"
            THEN k = Len(seq) + 1
            ELSE /\ result[t].code = "ABORTED"
                 /\ k <= Len(seq)
                 /\ ~TestRan(t, k)
                 /\ result[t].text = CancelledText
                      => (t \in cancelled /\ TestRpcs(t, k) = {})
                 /\ result[t].text \in {NoServicesText, NoIdleNodeText}
                      => TestRpcs(t, k) = {}
                 /\ result[t].text \notin
                        {CancelledText, NoServicesText, NoIdleNodeText}
                      => \E ph \in Phases : Rpcs(t, k, ph, "failed") # {}
                 /\ Rpcs(t, k, "ConfigureNodes", "failed") # {}
                      => /\ Rpcs(t, k, "IntroducePeers", "issued") = {}
                         /\ Rpcs(t, k, "RunTraffic", "issued") = {}
                 /\ Rpcs(t, k, "IntroducePeers", "failed") # {}
                      => Rpcs(t, k, "RunTraffic", "issued") = {}

\* A sequence of two tests has returned ABORTED: its first test ran, and its
\* context was found cancelled before the second.
C16_Witness ==
  /\ pc[1] = "done"
  /\ Len(sequence[1]) = 2
  /\ test_index[1] = 2
  /\ result[1].text = CancelledText
  /\ Len(response[1]) = 1

\* The aliases whose RPC of the phase has been answered.
AnsweredRpcs(t, k, ph) == Rpcs(t, k, ph, "OK") \cup Rpcs(t, k, ph, "failed")

\* C23: no RPC of a fan-out is issued twice to a node or answered twice;
\* the step in which ConfigureNodes, IntroducePeers or RunTraffic returns,
\* with OK or not, finds an RPC issued to exactly the aliases of the
\* placement (those with an empty service set too), each answered; a pass of
\* CancelTraffic's loop issues an RPC to the node it visits if and only if
\* that node is not idle, and CancelTraffic returns with each answered.
C23_FanInComplete ==
  /\ [](\A t \in Calls : \A e \in rpc_log[t] :
          /\ e[4] \notin {"reissued", "answered again"}
          /\ ~ (e[4] = "OK" /\ <<e[1], e[2], e[3], "failed">> \in rpc_log[t]))
  /\ [][\A t \in Calls :
         /\ \A ph \in Phases :
              (PhaseOf(t) = ph /\ PhaseOf(t)' # ph) =>
                /\ Rpcs(t, test_index[t], ph, "issued")
                     = DOMAIN node_service_map[t]
                /\ AnsweredRpcs(t, test_index[t], ph)
                     = DOMAIN node_service_map[t]
         /\ (pc[t] = "CancelTraffic_scan" /\ todo'[t] # todo[t]) =>
              \A a \in todo[t] \ todo'[t] :
                (<<0, "CancelTraffic", a, "issued">> \in rpc_log'[t])
                  <=> ~node_map[a].idle
         /\ (pc[t] = "CancelTraffic_wait" /\ pc'[t] # "CancelTraffic_wait") =>
              AnsweredRpcs(t, 0, "CancelTraffic")
                = Rpcs(t, 0, "CancelTraffic", "issued")]_vars

\* A RunTraffic on two nodes, one of them with no service, has returned a
\* failure.
C23_Witness ==
  /\ pc[1] = "Notify"
  /\ Cardinality(Rpcs(1, test_index[1], "RunTraffic", "issued")) = 2
  /\ Rpcs(1, test_index[1], "RunTraffic", "failed") # {}
  /\ \E a \in DOMAIN node_service_map[1] : node_service_map[1][a] = {}

PhaseErrorTexts == {"Unknown GRPC error", "Unknown GRPC error2"}

\* C24: the step in which a Configure, Introduce or RunTraffic fan-out
\* returns goes on with the test if and only if every one of its RPCs was
\* answered OK, in whatever order the answers came; otherwise the fan-out
\* returns its error (and the sequence ABORTED with its message), and the
\* status it holds is that of the first non-OK answer it took.
C24_FirstFailureRetained ==
  [][\A t \in Calls : \A ph \in Phases :
       (PhaseOf(t) = ph /\ PhaseOf(t)' # ph) =>
         LET k == test_index[t]
         IN /\ (pc'[t] # "Notify") <=> (Rpcs(t, k, ph, "failed") = {})
            /\ Rpcs(t, k, ph, "failed") # {} =>
                 /\ result'[t].code = "ABORTED"
                 /\ result'[t].text \in PhaseErrorTexts
                 /\ \A a \in Rpcs(t, k, ph, "first failed") :
                      fan_status[t] = WorkerError(a)]_vars

\* ---- idle flags (Spec)

\* C15: the step in which a call's RunTraffic returns, with OK or with a
\* failure, ends in a state where every node the RunTraffic sent an RPC to
\* has idle = true.
C15_IdleAfterRunTraffic ==
  [][\A t \in Calls :
       (pc[t] = "RunTraffic_wait" /\ pc'[t] # "RunTraffic_wait")
         => \A a \in DOMAIN node_service_map[t] :
              /\ <<test_index[t], "RunTraffic", a, "issued">> \in rpc_log[t]
              /\ node_map'[a].idle]_vars

\* A RunTraffic has returned a failure: a worker answered non-OK, and the
\* nodes it ran on are idle.
C15_Witness ==
  \E t \in Calls :
    /\ pc[t] = "Notify"
    /\ \E e \in rpc_log[t] : e[2] = "RunTraffic" /\ e[4] = "failed"
    /\ \A a \in DOMAIN node_service_map[t] : node_map[a].idle

\* ---- the broadcast at entry (Spec)

\* C17: the step in which a call's CancelTraffic takes an answer from its
\* completion queue does the same whether the answer is OK or not: the
\* node's idle flag becomes true, the count of RPCs goes down, and nothing
\* else of the sequencer changes; and the CancelTraffic is left only
\* towards mutex_.Lock(), with no status set.
C17_CancelFailuresNotSurfaced ==
  [][\A t \in Calls :
       /\ (pc[t] = "CancelTraffic_wait" /\ rpc_log'[t] # rpc_log[t]) =>
            \E a \in pending[t] :
              /\ node_map' = [node_map EXCEPT ![a].idle = TRUE]
              /\ pending' = [pending EXCEPT ![t] = @ \ {a}]
              /\ UNCHANGED <<ctlVars, pc, sequence, test_index, response,
                             result, prior_notification, node_service_map,
                             todo, fan_status, node_id_map>>
       /\ (pc[t] = "CancelTraffic_wait" /\ pc'[t] # "CancelTraffic_wait") =>
            /\ pc'[t] = "Lock"
            /\ result'[t] = NoResult]_vars

\* A call whose CancelTraffic got a non-OK answer has run its test and
\* returned OK with one TestResult.
C17_Witness ==
  \E t \in Calls :
    /\ pc[t] = "done"
    /\ \E e \in rpc_log[t] : e[2] = "CancelTraffic" /\ e[4] = "failed"
    /\ result[t].code = "OK"
    /\ Len(response[t]) = 1

\* C18: no node has had its idle flag written by the CancelTraffic of one
\* call and by the RunTraffic of another while both fan-outs are in
\* progress.
C18_OneFanOutPerIdleFlag ==
  \A t, u \in Calls : \A a \in DOMAIN node_map :
    ~ /\ t # u
      /\ pc[t] = "CancelTraffic_wait"
      /\ \E ev \in {"OK", "failed"} :
           <<test_index[t], "CancelTraffic", a, ev>> \in rpc_log[t]
      /\ pc[u] \in {"RunTraffic_dispatch", "RunTraffic_wait"}
      /\ <<test_index[u], "RunTraffic", a, "issued">> \in rpc_log[u]

\* C19: a node whose idle flag is true has no RunTraffic RPC that was issued
\* and has not been answered.
C19_IdleMeansNoRunTraffic ==
  \A a \in DOMAIN node_map :
    node_map[a].idle =>
      ~ \E u \in Calls :
          /\ pc[u] \in {"RunTraffic_dispatch", "RunTraffic_wait"}
          /\ a \in pending[u]

\* C20: a call's context is cancelled only in a step of a call that entered
\* RunTestSequence after it (calls are numbered in order of entry).
C20_CancelledOnlyByLater ==
  [][\A u \in Calls :
       (u \in cancelled' /\ u \notin cancelled) =>
         \E t \in Calls :
           /\ t > u
           /\ pc[t] \in {"Lock", "Relock"}
           /\ pc'[t] = "WaitForNotification"]_vars

\* ---- cancellation and the RPCs in flight (CancelSpec)

\* C21: an RPC of a Configure, Introduce or RunTraffic fan-out that was in
\* flight when the call's context was cancelled is cancelled with it: it is
\* never answered OK.
C21_InFlightRpcsCancelled ==
  \A t \in Calls : \A e \in rpc_log[t] :
    e[4] = "in_flight_at_cancel"
      => <<e[1], e[2], e[3], "OK">> \notin rpc_log[t]

\* ---- the end of a call (Spec)
\* The calls that hold the active-sequence handle: from the installation of
\* their context to its clearing.
Installed == {t \in Calls : InBody(t) \/ pc[t] \in {"Notify", "Clear"}}

\* C22: a call whose body has returned, with whatever status, notifies its
\* Notification before it clears the handle: while it is about to notify it
\* has not notified and the handle is its own, while it is about to clear it
\* has notified and the handle is its own, and the step that clears sets
\* the handle to null; at most one call holds the handle.
C22_NotifyThenClear ==
  /\ [](/\ Cardinality(Installed) <= 1
        /\ \A t \in Installed : running_test_sequence_context_ = t
        /\ running_test_sequence_context_ # 0
             => running_test_sequence_context_ \in Installed
        /\ \A t \in Calls :
             /\ pc[t] = "Notify" => (t \notin notified /\ result[t].code # "none")
             /\ pc[t] = "Clear" => t \in notified)
  /\ [][\A t \in Calls :
         (pc[t] = "Clear" /\ pc'[t] = "done")
           => /\ running_test_sequence_context_ = t
              /\ running_test_sequence_context_' = 0
              /\ t \in notified]_vars

\* A call that was aborted by cancellation has notified and is about to
\* clear, while the call that cancelled it waits.
C22_Witness ==
  \E t, u \in Calls :
    /\ pc[t] = "Clear"
    /\ result[t].text = CancelledText
    /\ pc[u] = "WaitForNotification"
    /\ prior_notification[u] = t

\* ---- the writers of the idle flag (Spec)

\* C25: a step that changes the idle flag of a registered node is a pass of
\* RunTraffic's dispatch loop that sends the node its RPC (to false), or the
\* taking of the answer of the node's RPC by RunTraffic or by CancelTraffic
\* (to true); so ConfigureNodes, IntroducePeers, the placement and
\* RegisterNode, a re-registration too, leave every idle flag as it was, and
\* a node re-registered when no traffic runs is idle.
C25_IdleFlagFrame ==
  /\ [][\A a \in DOMAIN node_map :
         node_map'[a].idle # node_map[a].idle =>
           \E t \in Calls :
             \/ /\ pc[t] = "RunTraffic_dispatch"
                /\ ~node_map'[a].idle
                /\ a \in pending'[t] \ pending[t]
             \/ /\ pc[t] \in {"RunTraffic_wait", "CancelTraffic_wait"}
                /\ node_map'[a].idle
                /\ a \in pending[t] \ pending'[t]]_vars
  /\ [][(regCount' # regCount /\ lastReg'.status = "OK" /\ lastReg'.repeated)
         => /\ lastReg'.node_alias \in DOMAIN node_map
            /\ node_map'[lastReg'.node_alias].idle
            /\ \A a \in DOMAIN node_map :
                 node_map'[a].idle = node_map[a].idle]_vars

\* A node was registered, a sequence ran its traffic on it and returned OK,
\* and the same payload was registered again: the node is idle.
C25_Witness ==
  /\ lastReg.status = "OK"
  /\ lastReg.repeated
  /\ node_map[lastReg.node_alias].idle
  /\ \E t \in Calls :
       /\ pc[t] = "done"
       /\ result[t].code = "OK"
       /\ <<1, "RunTraffic", lastReg.node_alias, "OK">> \in rpc_log[t]

\* ---- the placement and the registry

\* C26: when the placement succeeds, the aliases of node_service_map are
\* the aliases of the snapshot of node_map_, those named by a bundle (also
\* by a bundle with no services) among them.
C26_PlacementCoversSnapshot ==
  pl_result.status = "OK" => DOMAIN pl_result.nsm = pl_aliases

\* C27: no call fails a QCHECK, and whenever a call is about to look up the
\* aliases of its placement in ConfigureNodes, IntroducePeers or RunTraffic,
\* or is in one of them, every alias of the placement is in node_map_.
C27_LookupsSucceed ==
  \A t \in Calls :
    /\ pc[t] # "QCHECK_failed"
    /\ pc[t] \in {"ConfigureNodes", "ConfigureNodes_wait", "IntroducePeers",
                   "IntroducePeers_wait", "RunTraffic", "RunTraffic_dispatch",
                   "RunTraffic_wait"}
         => DOMAIN node_service_map[t] \subseteq DOMAIN node_map

\* A node was registered after a call took its snapshot, and the call has
\* looked up its placement in ConfigureNodes.
C27_Witness ==
  \E t \in Calls :
    /\ pc[t] = "ConfigureNodes_wait"
    /\ DOMAIN node_service_map[t] # {}
    /\ DOMAIN node_service_map[t] # DOMAIN node_map

\* ---- progress (LiveSpec)

\* C28: every RunTestSequence call eventually installs its context as the
\* active sequence, and eventually returns.
C28_Progress ==
  \A t \in Calls :
    /\ <>(running_test_sequence_context_ = t)
    /\ <>(pc[t] = "done")

\* Every call has returned, one of them after it cancelled another and
\* waited for its Notification.
C28_Witness ==
  /\ \A t \in Calls : pc[t] = "done"
  /\ cancelled # {}
  /\ \E t \in Calls : prior_notification[t] \in cancelled

====
